---- MODULE Spec2Model ----
(***************************************************************************)
(* Model of notebooks/common_imports.py: the interop bootstrap that starts *)
(* the .NET bridge, references DerivaSharp.dll and binds the notebook      *)
(* names.  The script is straight-line code; every top-level statement is  *)
(* one action, executed in source order, and an exception raised by a      *)
(* statement ends the run.  The ambient environment (installed packages,   *)
(* hosted runtime, working directory, files on disk, namespaces the build  *)
(* exposes) is chosen in Init and does not change during a session.        *)
(***************************************************************************)
EXTENDS Integers, Sequences, FiniteSets, TLC

VARIABLES env, status, pc, runs, bound, bridge, loaded, referenced, trace, failure, ends

vars == <<env, status, pc, runs, bound, bridge, loaded, referenced, trace, failure, ends>>

\* ---------------------------------------------------------------- bounds
\* number of times the session executes the script
MaxRuns == 2
\* depth of the directories the process may have as working directory
MaxDepth == 2

\* ------------------------------------------------------------ the script
\* the top-level statements of the script, in source order
Stmts ==
  << "import_load", "load", "import_os", "import_clr", "AddReference",
     "import_plt", "import_np", "import_pd",
     "import_Instruments", "import_PricingEngines", "import_DateOnly" >>

StmtIndex(s) == CHOOSE i \in 1..Len(Stmts) : Stmts[i] = s

\* the argument of os.path.abspath on line 8, split at the separators
ArtifactRelPath ==
  << "..", "src", "DerivaSharp", "bin", "Release", "net9.0", "win-x64",
     "publish", "DerivaSharp.dll" >>

\* the directory that holds the script: <repository>/notebooks
ScriptDir == << "repo", "notebooks" >>

DirNames == { "repo", "notebooks" }

UtilityLibs == { "matplotlib", "numpy", "pandas" }

\* what the loaded build and the hosted runtime can expose to "import"
Namespaces == { "DerivaSharp.Instruments", "DerivaSharp.PricingEngines", "System.DateOnly" }

FileKinds == { "missing", "invalid", "valid" }

\* ------------------------------------------------------- os.path.abspath
RECURSIVE Normpath(_, _)
\* os.path.normpath on an absolute path: "." is dropped, ".." removes the
\* last component and is dropped at the root
Normpath(done, rest) ==
  IF rest = << >> THEN done
  ELSE IF Head(rest) = "." THEN Normpath(done, Tail(rest))
  ELSE IF Head(rest) = ".."
       THEN Normpath(IF done = << >> THEN << >> ELSE SubSeq(done, 1, Len(done) - 1), Tail(rest))
  ELSE Normpath(Append(done, Head(rest)), Tail(rest))

\* os.path.abspath(rel) = normpath(join(os.getcwd(), rel))
Abspath(cwd, rel) == Normpath(<< >>, cwd \o rel)

\* the path handed to clr.AddReference
ResolvedPath == Abspath(env.cwd, ArtifactRelPath)

\* where the artifact lies when the path is taken from the script's directory
ScriptArtifactPath == Normpath(<< >>, ScriptDir \o ArtifactRelPath)

\* ------------------------------------------------------------ environment
Dirs == UNION { [1..n -> DirNames] : n \in 0..MaxDepth }

Envs ==
  { e \in [ pythonnet : BOOLEAN, runtime : BOOLEAN, libs : SUBSET UtilityLibs,
            cwd : Dirs, exposed : SUBSET Namespaces,
            fs : UNION { [ { ScriptArtifactPath, Abspath(d, ArtifactRelPath) } -> FileKinds ] : d \in Dirs } ] :
      DOMAIN e.fs = { ScriptArtifactPath, Abspath(e.cwd, ArtifactRelPath) } }

NoFailure == [ stmt |-> "none", class |-> "none" ]

Init ==
  /\ env \in Envs
  /\ status = "idle"
  /\ pc = 0
  /\ runs = 0
  /\ bound = {}
  /\ bridge = FALSE
  /\ loaded = {}
  /\ referenced = {}
  /\ trace = << >>
  /\ failure = NoFailure
  /\ ends = << >>

\* ------------------------------------------------- statement semantics
Binds_module(s) ==
  CASE s = "import_load" -> { "load" }
    [] s = "import_os" -> { "os" }
    [] s = "import_clr" -> { "clr" }
    [] s = "import_plt" -> { "plt" }
    [] s = "import_np" -> { "np" }
    [] s = "import_pd" -> { "pd" }
    [] s = "import_Instruments" -> { "Instruments" }
    [] s = "import_PricingEngines" -> { "PricingEngines" }
    [] s = "import_DateOnly" -> { "System" }
    [] OTHER -> {}

Binds_reordered(s) ==
  CASE s = "import_load" -> { "load" }
    [] s = "import_os" -> { "os" }
    [] s = "import_clr" -> { "clr" }
    [] s = "import_plt" -> { "plt" }
    [] s = "import_np" -> { "np" }
    [] s = "import_pd" -> { "pd" }
    [] s = "import_Instruments" -> { "PricingEngines" }
    [] s = "import_PricingEngines" -> { "Instruments" }
    [] s = "import_DateOnly" -> { "DateOnly" }
    [] OTHER -> {}

\* the name a statement binds in the namespace the script runs in
Binds(s) ==
  CASE s = "import_load" -> { "load" }
    [] s = "import_os" -> { "os" }
    [] s = "import_clr" -> { "clr" }
    [] s = "import_plt" -> { "plt" }
    [] s = "import_np" -> { "np" }
    [] s = "import_pd" -> { "pd" }
    [] s = "import_Instruments" -> { "Instruments" }
    [] s = "import_PricingEngines" -> { "PricingEngines" }
    [] s = "import_DateOnly" -> { "DateOnly" }
    [] OTHER -> {}

\* control falls through to the next top-level statement
Advance(k) == k + 1

Raise_swallowed(s, class) ==
  /\ status' = IF StmtIndex(s) = Len(Stmts) THEN "done" ELSE "running"
  /\ pc' = Advance(pc)
  /\ failure' = failure
  /\ ends' = IF StmtIndex(s) = Len(Stmts) THEN Append(ends, [ status |-> "done", bound |-> bound ]) ELSE ends

\* an exception leaves the script: nothing catches it
Raise(s, class) ==
  /\ status' = "failed"
  /\ pc' = pc
  /\ failure' = [ stmt |-> s, class |-> class ]
  /\ ends' = Append(ends, [ status |-> "failed", bound |-> bound ])

\* one top-level statement: it either completes, binding its name, or raises
Exec(s, ok, class) ==
  /\ status = "running"
  /\ pc = StmtIndex(s)
  /\ trace' = Append(trace, [ stmt |-> s, ok |-> ok ])
  /\ IF ok
     THEN /\ bound' = bound \cup Binds(s)
          /\ pc' = Advance(pc)
          /\ status' = IF StmtIndex(s) = Len(Stmts) THEN "done" ELSE "running"
          /\ failure' = failure
          /\ ends' = IF StmtIndex(s) = Len(Stmts)
                     THEN Append(ends, [ status |-> "done", bound |-> bound \cup Binds(s) ])
                     ELSE ends
     ELSE /\ bound' = bound
          /\ Raise(s, class)
  /\ UNCHANGED << env, runs >>

\* --------------------------------------------------------------- actions
\* the session executes the script (first run or re-run); no guard in the script
Invoke ==
  /\ status \in { "idle", "done", "failed" }
  /\ runs < MaxRuns
  /\ runs' = runs + 1
  /\ status' = "running"
  /\ pc' = 1
  /\ trace' = << >>
  /\ failure' = NoFailure
  /\ UNCHANGED << env, bound, bridge, loaded, referenced, ends >>

\* line 1: from pythonnet import load
ImportLoad ==
  /\ Exec("import_load", env.pythonnet, "ImportError")
  /\ UNCHANGED << bridge, loaded, referenced >>

LoadOk_once == ~bridge /\ env.runtime

\* load returns at once when the bridge is already active, otherwise it
\* needs a discoverable hosted runtime
LoadOk == bridge \/ env.runtime

\* line 3: load("coreclr")
BridgeInit ==
  /\ Exec("load", LoadOk, "RuntimeError")
  /\ bridge' = (bridge \/ LoadOk)
  /\ UNCHANGED << loaded, referenced >>

\* line 5: import os
ImportOs ==
  /\ Exec("import_os", TRUE, "ImportError")
  /\ UNCHANGED << bridge, loaded, referenced >>

\* line 6: import clr
ImportClr ==
  /\ Exec("import_clr", bridge, "ImportError")
  /\ UNCHANGED << bridge, loaded, referenced >>

AddReferenceError_generic(kind) == "FileNotFoundException"

\* the exception of the assembly loader for a file of the given kind
AddReferenceError(kind) ==
  IF kind = "missing" THEN "FileNotFoundException" ELSE "BadImageFormatException"

AddReferenceOk_lenient(kind) == TRUE

AddReferenceOk(kind) == kind = "valid"

\* line 8: clr.AddReference(os.path.abspath("../src/.../DerivaSharp.dll"))
AddReference ==
  /\ Exec("AddReference", AddReferenceOk(env.fs[ResolvedPath]), AddReferenceError(env.fs[ResolvedPath]))
  /\ referenced' = referenced \cup { ResolvedPath }
  /\ loaded' = IF AddReferenceOk(env.fs[ResolvedPath]) THEN loaded \cup { ResolvedPath } ELSE loaded
  /\ UNCHANGED bridge

\* line 10: import matplotlib.pyplot as plt
ImportPlt ==
  /\ Exec("import_plt", "matplotlib" \in env.libs, "ImportError")
  /\ UNCHANGED << bridge, loaded, referenced >>

\* line 11: import numpy as np
ImportNp ==
  /\ Exec("import_np", "numpy" \in env.libs, "ImportError")
  /\ UNCHANGED << bridge, loaded, referenced >>

\* line 12: import pandas as pd
ImportPd ==
  /\ Exec("import_pd", "pandas" \in env.libs, "ImportError")
  /\ UNCHANGED << bridge, loaded, referenced >>

\* a DerivaSharp namespace resolves when an assembly is loaded and exposes it
Resolves(ns) == loaded # {} /\ ns \in env.exposed

\* line 14: import DerivaSharp.Instruments as Instruments
ImportInstruments ==
  /\ Exec("import_Instruments", Resolves("DerivaSharp.Instruments"), "ImportError")
  /\ UNCHANGED << bridge, loaded, referenced >>

\* line 15: import DerivaSharp.PricingEngines as PricingEngines
ImportPricingEngines ==
  /\ Exec("import_PricingEngines", Resolves("DerivaSharp.PricingEngines"), "ImportError")
  /\ UNCHANGED << bridge, loaded, referenced >>

\* line 16: from System import DateOnly
ImportDateOnly ==
  /\ Exec("import_DateOnly", bridge /\ "System.DateOnly" \in env.exposed, "ImportError")
  /\ UNCHANGED << bridge, loaded, referenced >>

Next ==
  \/ Invoke
  \/ ImportLoad
  \/ BridgeInit
  \/ ImportOs
  \/ ImportClr
  \/ AddReference
  \/ ImportPlt
  \/ ImportNp
  \/ ImportPd
  \/ ImportInstruments
  \/ ImportPricingEngines
  \/ ImportDateOnly

Spec == Init /\ [][Next]_vars

\* the interpreter keeps executing the statements of a run that has started;
\* nothing obliges the session to start a run
Step ==
  \/ ImportLoad
  \/ BridgeInit
  \/ ImportOs
  \/ ImportClr
  \/ AddReference
  \/ ImportPlt
  \/ ImportNp
  \/ ImportPd
  \/ ImportInstruments
  \/ ImportPricingEngines
  \/ ImportDateOnly

FairSpec == Spec /\ WF_vars(Step)

\* ------------------------------------------------------------ properties
Terminal == status \in { "done", "failed" }

Attempted(s) == \E i \in 1..Len(trace) : trace[i].stmt = s

Succeeded(s) == \E i \in 1..Len(trace) : trace[i] = [ stmt |-> s, ok |-> TRUE ]

\* the six names the notebook cells rely on
Documented == { "plt", "np", "pd", "Instruments", "PricingEngines", "DateOnly" }

DomainNames == { "Instruments", "PricingEngines" }

\* every prerequisite of the script is in place: the bridge package and the
\* utility libraries are installed, the hosted runtime is discoverable, the
\* file the script references is a loadable build, and the namespaces exist
ValidEnv ==
  /\ env.pythonnet
  /\ env.runtime
  /\ env.libs = UtilityLibs
  /\ env.fs[ResolvedPath] = "valid"
  /\ env.exposed = Namespaces

\* C1: the artifact-load step is attempted only after bridge init has
\* completed successfully in the same run, and never when the hosted
\* runtime is not discoverable.
C1_BridgeBeforeArtifact ==
  /\ \A j \in 1..Len(trace) :
       trace[j].stmt = "AddReference" =>
         /\ bridge
         /\ \E i \in 1..(j - 1) : trace[i] = [ stmt |-> "load", ok |-> TRUE ]
  /\ referenced # {} => bridge
  /\ ~env.runtime => (referenced = {} /\ ~Attempted("AddReference"))

C1_Witness ==
  /\ ~env.runtime
  /\ status = "failed"
  /\ failure.stmt = "load"

\* C2: in a valid environment the first run never fails and leads to the
\* completed state in which the five expected names and DateOnly are bound.
C2_SuccessPostcondition ==
  /\ []((ValidEnv /\ runs = 1) => status # "failed")
  /\ []((ValidEnv /\ runs = 1 /\ status = "done") => Documented \subseteq bound)
  /\ ((ValidEnv /\ runs = 1) ~> (status = "done" /\ Documented \subseteq bound))

C2_Witness ==
  /\ ValidEnv
  /\ runs = 1
  /\ status = "done"
  /\ Documented \subseteq bound

\* C3: when the referenced artifact path does not exist the bootstrap never
\* completes, none of the six names is ever bound, and a run that got past
\* bridge init fails at the artifact-load step with a not-found error.
C3_NoBindingOnMissingArtifact ==
  env.fs[ResolvedPath] = "missing" =>
    /\ status # "done"
    /\ Documented \cap bound = {}
    /\ loaded = {}
    /\ (status = "failed" /\ bridge) =>
         failure = [ stmt |-> "AddReference", class |-> "FileNotFoundException" ]

C3_Witness ==
  /\ env.fs[ResolvedPath] = "missing"
  /\ status = "failed"
  /\ failure.stmt = "AddReference"
  /\ Documented \cap bound = {}

\* C4 as stated: every run ends either completed or with neither
\* Instruments nor PricingEngines bound.
C4_AllOrNothing ==
  Terminal => (status = "done" \/ DomainNames \cap bound = {})

\* C4 amended: a run ends completed with both domain namespaces bound, or
\* failed; a failure before the import of Instruments, or at it, leaves
\* neither bound, a failure at the import of PricingEngines leaves
\* Instruments bound, a failure at the import of DateOnly leaves both bound.
C4_FailStopBinding ==
  /\ status = "done" => DomainNames \subseteq bound
  /\ status = "failed" =>
       CASE failure.stmt = "import_PricingEngines" -> DomainNames \cap bound = { "Instruments" }
         [] failure.stmt = "import_DateOnly" -> DomainNames \subseteq bound /\ "DateOnly" \notin bound
         [] OTHER -> DomainNames \cap bound = {}

C4_Witness ==
  /\ status = "failed"
  /\ failure.stmt = "import_PricingEngines"
  /\ "Instruments" \in bound
  /\ "PricingEngines" \notin bound

\* C5: in a valid environment every re-run ends with the same bound-name set
\* as the first run, and the re-run executes bridge init and artifact load
\* again.
C5_RerunSameNames ==
  (ValidEnv /\ runs >= 2 /\ Terminal) =>
    /\ Len(ends) = runs
    /\ ends[runs].bound = ends[1].bound
    /\ bound = ends[1].bound
    /\ Attempted("load")
    /\ Attempted("AddReference")

C5_Witness ==
  /\ ValidEnv
  /\ runs = 2
  /\ status = "done"
  /\ Succeeded("load")
  /\ Succeeded("AddReference")

\* the import statement that is to bind a documented name
ImportOf(n) ==
  CASE n = "plt" -> "import_plt"
    [] n = "np" -> "import_np"
    [] n = "pd" -> "import_pd"
    [] n = "Instruments" -> "import_Instruments"
    [] n = "PricingEngines" -> "import_PricingEngines"
    [] n = "DateOnly" -> "import_DateOnly"

\* C6 as stated: in a valid environment none of the six names is bound
\* while the first run is still executing.
C6_NothingBoundBeforeCompletion ==
  (ValidEnv /\ runs = 1 /\ status = "running") => Documented \cap bound = {}

\* C6 amended: in a valid environment, up to the end of the first run, none
\* of the six names is bound before the artifact-load step has succeeded,
\* each name is bound exactly from the completion of its own import
\* statement, and all six are bound together exactly when the run completed.
C6_BoundStatementByStatement ==
  (ValidEnv /\ runs <= 1) =>
    /\ ~Succeeded("AddReference") => Documented \cap bound = {}
    /\ \A n \in Documented : n \in bound <=> Succeeded(ImportOf(n))
    /\ Documented \subseteq bound <=> status = "done"

C6_Witness ==
  /\ ValidEnv
  /\ runs = 1
  /\ status = "running"
  /\ "plt" \in bound
  /\ "DateOnly" \notin bound

\* C7: the artifact path is resolved from the directory of the script, so
\* every path the bootstrap references is the artifact beside the script,
\* whatever the working directory of the process.
C7_ResolvedFromScriptLocation ==
  \A p \in referenced : p = ScriptArtifactPath

C9_FailStopSequence ==
  /\ Len(trace) <= Len(Stmts)
  /\ \A i \in 1..Len(trace) : trace[i].stmt = Stmts[i]
  /\ \A i \in 1..(Len(trace) - 1) : trace[i].ok
  /\ status = "failed" <=> (Len(trace) > 0 /\ ~trace[Len(trace)].ok)
  /\ status = "failed" => failure.stmt = trace[Len(trace)].stmt
  /\ status = "done" <=> (Len(trace) = Len(Stmts) /\ trace[Len(Stmts)].ok)
  /\ status = "running" => pc = Len(trace) + 1

C9_Witness ==
  /\ status = "failed"
  /\ failure.stmt = "import_np"
  /\ Len(trace) = StmtIndex("import_np")

\* the order in which the script binds names
BoundOrder ==
  << "load", "os", "clr", "plt", "np", "pd", "Instruments", "PricingEngines", "DateOnly" >>

\* C10: the bound names are always an initial part of load, os, clr, plt,
\* np, pd, Instruments, PricingEngines, DateOnly; a completed run has bound
\* all nine, a failed artifact load leaves exactly load, os and clr bound,
\* and DateOnly is bound only with both domain namespaces.
C10_BoundNamesArePrefix ==
  /\ \E k \in 0..Len(BoundOrder) : bound = { BoundOrder[i] : i \in 1..k }
  /\ status = "done" => Cardinality(bound) = Len(BoundOrder)
  /\ (status = "failed" /\ failure.stmt = "AddReference") => bound = { "load", "os", "clr" }
  /\ "DateOnly" \in bound => DomainNames \subseteq bound

C10_Witness ==
  /\ status = "failed"
  /\ failure.stmt = "AddReference"
  /\ bound = { "load", "os", "clr" }

====
